---- MODULE Spec2Model ----
(***************************************************************************)
(* Inverted index over a chained hash table (src/main.cpp).                *)
(*                                                                         *)
(* Characters are their ASCII codes, C strings are sequences of non-zero   *)
(* codes.  The state is the global HashTable, the position of main in its  *)
(* build loop and query loop, the stream and line buffer of the file that  *)
(* LoadFileAndIndex has open, and what the program last printed.           *)
(*                                                                         *)
(* malloc may return NULL in any call.  A word of MAX_WORD_LEN or more     *)
(* characters is written past word[MAX_WORD_LEN]; the behaviour is then    *)
(* undefined, and the model takes every outcome: the process crashes, or   *)
(* it goes on and the WordNode keeps the word cut where doc_list begins.   *)
(***************************************************************************)
EXTENDS Integers, Sequences, FiniteSets, TLC

VARIABLES
    HashTable,    \* bucket index -> chain of WordNodes, head first; a bucket that is
                  \* not in the domain is NULL
    files,        \* the (doc_id, filename) list the build loop walks, with each file's content
    i,            \* index of the build loop (1-based position in files)
    pc,           \* position of the program
    fp,           \* unread rest of the open file
    line_buffer,  \* part of the current line strtok has not consumed yet
    word,         \* the normalized word written by the last ToLowerCase call
    lastOut,      \* the last message written to the console
    mallocFails   \* number of malloc calls that returned NULL so far

vars == <<HashTable, files, i, pc, fp, line_buffer, word, lastOut, mallocFails>>

-----------------------------------------------------------------------------
(* Program constants *)

TABLE_SIZE == 1007
MAX_WORD_LEN == 50
MAX_LINE_LEN == 1024
file_count == 4

\* " ,.?!\"\n\t\r[](){}"
delimiters == {32, 44, 46, 63, 33, 34, 10, 9, 13, 91, 93, 40, 41, 123, 125}

\* Offset of doc_list in struct WordNode: word[50] padded to the alignment of a
\* pointer (4-byte pointers: 52, 8-byte pointers: 56).
DocListOffsets == {52, 56}

-----------------------------------------------------------------------------
(* Bounds of the model *)

MaxOOM == 1        \* allocation failures explored per run
MaxCalls == 2      \* LoadFileAndIndex calls of a driver other than main

-----------------------------------------------------------------------------
(* Strings *)

Min(a, b) == IF a < b THEN a ELSE b

Rep(c, n) == [k \in 1..n |-> c]

\* tolower of the C locale
tolower(c) == IF c \in 65..90 THEN c + 32 ELSE c

\* a copy without tolower
ToLowerCaseCopy(src) == src

\* ToLowerCase: the string written to dest (no bound on its length)
ToLowerCase(src) == [k \in 1..Len(src) |-> tolower(src[k])]

\* BKDR hash on unsigned 32-bit arithmetic, kept as two 16-bit halves <<hi, lo>>
HashStep(h, c) ==
    LET lo == h[2] * 131 + c
        hi == h[1] * 131 + (lo \div 65536)
    IN  <<hi % 65536, lo % 65536>>

\* the while loop of HashFunction over str[from..to]: hash = hash * seed + c for each
\* character from left to right (the left part is evaluated to a value first, which
\* keeps the evaluation of a long string shallow)
RECURSIVE HashLoop(_, _, _, _)
HashLoop(h, str, from, to) ==
    IF from > to THEN h
    ELSE IF from = to THEN HashStep(h, str[from])
    ELSE LET mid == (from + to) \div 2
         IN  CHOOSE r \in { HashLoop(left, str, mid + 1, to) :
                               left \in {HashLoop(h, str, from, mid)} } : TRUE

HashFunction(str) ==
    LET h == HashLoop(<<0, 0>>, str, 1, Len(str))
    IN  ((h[1] % TABLE_SIZE) * (65536 % TABLE_SIZE) + h[2]) % TABLE_SIZE

-----------------------------------------------------------------------------
(* Stream and tokenizer *)

\* index of the first delimiter of s, 0 when none (strcspn, strpbrk)
FirstDelim(s) ==
    IF \E k \in 1..Len(s) : s[k] \in delimiters
    THEN CHOOSE k \in 1..Len(s) :
            s[k] \in delimiters /\ \A j \in 1..(k - 1) : s[j] \notin delimiters
    ELSE 0

\* index of the first character of s that is no delimiter, 0 when none (strspn)
FirstNonDelim(s) ==
    IF \E k \in 1..Len(s) : s[k] \notin delimiters
    THEN CHOOSE k \in 1..Len(s) :
            s[k] \notin delimiters /\ \A j \in 1..(k - 1) : s[j] \in delimiters
    ELSE 0

\* index of the first newline of s, 0 when none
FirstNewline(s) ==
    IF \E k \in 1..Len(s) : s[k] = 10
    THEN CHOOSE k \in 1..Len(s) : s[k] = 10 /\ \A j \in 1..(k - 1) : s[j] # 10
    ELSE 0

\* fgets(line_buffer, MAX_LINE_LEN, fp): number of characters it takes from the stream
FgetsLen(stream) ==
    LET nl == FirstNewline(stream)
        upto == IF nl = 0 THEN Len(stream) ELSE nl
    IN  Min(upto, MAX_LINE_LEN - 1)

\* line_buffer[strcspn(line_buffer, "\n")] = 0
StripNewline(line) ==
    LET nl == FirstNewline(line)
    IN  IF nl = 0 THEN line ELSE SubSeq(line, 1, nl - 1)

\* strtok on the unconsumed part of the line: the token (<<>> for NULL) and what is left
Strtok(buf) ==
    LET start == FirstNonDelim(buf)
        from == IF start = 0 THEN <<>> ELSE SubSeq(buf, start, Len(buf))
        stop == FirstDelim(from)
    IN  IF start = 0 THEN [token |-> <<>>, rest |-> <<>>]
        ELSE IF stop = 0 THEN [token |-> from, rest |-> <<>>]
        ELSE [token |-> SubSeq(from, 1, stop - 1),
              rest |-> SubSeq(from, stop + 1, Len(from))]

-----------------------------------------------------------------------------
(* Table *)

\* HashTable[idx] of table T: the chain, <<>> for NULL
Chain(T, idx) == IF idx \in DOMAIN T THEN T[idx] ELSE <<>>

\* table T with the chain of bucket idx replaced
SetChain(T, idx, chain) ==
    [b \in DOMAIN T \cup {idx} |-> IF b = idx THEN chain ELSE T[b]]

\* position in the chain of the first WordNode whose word equals w, 0 for NULL
FindWord(chain, w) ==
    IF \E k \in 1..Len(chain) : chain[k].word = w
    THEN CHOOSE k \in 1..Len(chain) :
            chain[k].word = w /\ \A j \in 1..(k - 1) : chain[j].word # w
    ELSE 0

\* the scan comparing the wrong field of the DocNode
FindDocByFrequency(doc_list, doc_id) ==
    IF \E k \in 1..Len(doc_list) : doc_list[k].frequency = doc_id
    THEN CHOOSE k \in 1..Len(doc_list) :
            doc_list[k].frequency = doc_id
                /\ \A j \in 1..(k - 1) : doc_list[j].frequency # doc_id
    ELSE 0

\* position in the posting list of the first DocNode of doc_id, 0 for NULL
FindDoc(doc_list, doc_id) ==
    IF \E k \in 1..Len(doc_list) : doc_list[k].doc_id = doc_id
    THEN CHOOSE k \in 1..Len(doc_list) :
            doc_list[k].doc_id = doc_id /\ \A j \in 1..(k - 1) : doc_list[j].doc_id # doc_id
    ELSE 0

\* the string p->word reads as after strcpy(p->word, word); p->doc_list = NULL
StoredWord(w, off) == SubSeq(w, 1, Min(Len(w), off))

NewWordNode(w) == [word |-> w, doc_list |-> <<>>]

NewDocNode(doc_id, doc_name) ==
    [doc_id |-> doc_id, doc_name |-> doc_name, frequency |-> 1]

\* steps 3 and 4 of InsertIndex on the WordNode at position pos of bucket idx of table T
RecordDoc(T, idx, pos, doc_id, doc_name) ==
    LET p == T[idx][pos]
        d == FindDoc(p.doc_list, doc_id)
    IN  IF d # 0
        THEN /\ HashTable' = [T EXCEPT ![idx][pos].doc_list[d].frequency = @ + 1]
             /\ UNCHANGED mallocFails
        ELSE \/ /\ mallocFails < MaxOOM           \* new_doc == NULL
                /\ mallocFails' = mallocFails + 1
                /\ HashTable' = T
             \/ /\ HashTable' = [T EXCEPT ![idx][pos].doc_list =
                                        <<NewDocNode(doc_id, doc_name)>> \o @]
                /\ UNCHANGED mallocFails

\* steps 1 to 4 of InsertIndex for the normalized word w, stored in the node as stored
InsertWord(w, stored, doc_id, doc_name) ==
    LET idx == HashFunction(w)
        pos == FindWord(Chain(HashTable, idx), w)
    IN  IF pos # 0
        THEN RecordDoc(HashTable, idx, pos, doc_id, doc_name)
        ELSE \/ /\ mallocFails < MaxOOM           \* p == NULL after malloc
                /\ mallocFails' = mallocFails + 1
                /\ UNCHANGED HashTable
             \/ LET T == SetChain(HashTable, idx,
                                   <<NewWordNode(stored)>> \o Chain(HashTable, idx))
                IN  \E fail \in BOOLEAN :
                       IF fail
                       THEN /\ mallocFails < MaxOOM
                            /\ mallocFails' = mallocFails + 1
                            /\ HashTable' = T
                       ELSE /\ HashTable' = [T EXCEPT ![idx][1].doc_list =
                                                <<NewDocNode(doc_id, doc_name)>>]
                            /\ UNCHANGED mallocFails

\* InsertIndex(raw_word, doc_id, doc_name), after which the caller goes on at next_pc
InsertIndex(raw_word, doc_id, doc_name, next_pc) ==
    LET w == ToLowerCase(raw_word)
    IN  /\ word' = w
        /\ IF Len(w) >= MAX_WORD_LEN
           THEN \* ToLowerCase wrote past word[MAX_WORD_LEN]: undefined behaviour
                \/ /\ pc' = "crashed"
                   /\ UNCHANGED <<HashTable, mallocFails>>
                \/ /\ pc' = next_pc
                   /\ \E off \in DocListOffsets :
                         InsertWord(w, StoredWord(w, off), doc_id, doc_name)
           ELSE /\ pc' = next_pc
                /\ IF Len(w) = 0
                   THEN UNCHANGED <<HashTable, mallocFails>>
                   ELSE InsertWord(w, w, doc_id, doc_name)

\* what Search prints for the normalized word w
SearchResult(w) ==
    LET chain == Chain(HashTable, HashFunction(w))
        pos == FindWord(chain, w)
    IN  IF pos = 0 THEN [msg |-> "notfound", rows |-> <<>>]
        ELSE IF chain[pos].doc_list = <<>> THEN [msg |-> "abnormal", rows |-> <<>>]
        ELSE [msg |-> "found",
              rows |-> [k \in 1..Len(chain[pos].doc_list) |->
                          [doc_name |-> chain[pos].doc_list[k].doc_name,
                           frequency |-> chain[pos].doc_list[k].frequency]]]

Search(query) == SearchResult(ToLowerCase(query))

-----------------------------------------------------------------------------
(* Inputs *)

\* "aa Aa,\ni8\n"   ("aa" and "i8" fall in the same bucket)
TextCollide == <<97, 97, 32, 65, 97, 44, 10, 105, 56, 10>>
\* "a a a"
TextRepeat == <<97, 32, 97, 32, 97>>
\* one token of 57 letters 'A'
TextLong == Rep(65, 57) \o <<10>>

Contents == {TextCollide, TextRepeat, TextLong}

\* "aa", "AA", "i8", "xi" (same bucket as "aa" and "i8", in no text), and 57 letters 'a'
Queries == {<<97, 97>>, <<65, 65>>, <<105, 56>>, <<120, 105>>, Rep(97, 57)}

FileNames == <<"source_1.txt", "source_2.txt", "requirements.txt", "test.txt">>

DocIds == {1, 2}

File(doc_id, name, content, available) ==
    [doc_id |-> doc_id, name |-> name, content |-> content, available |-> available]

\* a file that is there with one of the texts, or is not there
FilesOf(doc_id, name) ==
    {File(doc_id, name, c, TRUE) : c \in Contents} \cup {File(doc_id, name, <<>>, FALSE)}

-----------------------------------------------------------------------------
(* The program *)

Banner == [msg |-> "building", rows |-> <<>>]

InitCommon ==
    /\ HashTable = [b \in {} |-> <<>>]
    /\ i = 1
    /\ pc = "build"
    /\ fp = <<>>
    /\ line_buffer = <<>>
    /\ word = <<>>
    /\ lastOut = Banner
    /\ mallocFails = 0

\* main: the files of files[] with doc ids 1..file_count
Init ==
    /\ InitCommon
    /\ files \in [1..file_count -> UNION {FilesOf(k, FileNames[k]) : k \in 1..file_count}]
    /\ \A k \in 1..file_count : files[k].doc_id = k

\* a driver that calls LoadFileAndIndex MaxCalls times with any doc ids
ApiInit ==
    /\ InitCommon
    /\ files \in [1..MaxCalls -> UNION {FilesOf(d, FileNames[d]) : d \in DocIds}]

\* a missing file ending the program
LoadFileMissingAbort ==
    /\ pc = "build"
    /\ i <= Len(files)
    /\ ~files[i].available
    /\ lastOut' = [msg |-> "cannot open", rows |-> <<>>]
    /\ pc' = "exit"
    /\ UNCHANGED <<HashTable, files, i, fp, line_buffer, word, mallocFails>>

\* LoadFileAndIndex, fopen returns NULL
LoadFileMissing ==
    /\ pc = "build"
    /\ i <= Len(files)
    /\ ~files[i].available
    /\ lastOut' = [msg |-> "cannot open", rows |-> <<>>]
    /\ i' = i + 1
    /\ UNCHANGED <<HashTable, files, pc, fp, line_buffer, word, mallocFails>>

\* LoadFileAndIndex, fopen succeeds
LoadFileOpen ==
    /\ pc = "build"
    /\ i <= Len(files)
    /\ files[i].available
    /\ lastOut' = [msg |-> "indexing", rows |-> <<>>]
    /\ fp' = files[i].content
    /\ pc' = "fgets"
    /\ UNCHANGED <<HashTable, files, i, line_buffer, word, mallocFails>>

\* fgets reads a line, the newline is cut off
ReadLine ==
    /\ pc = "fgets"
    /\ fp # <<>>
    /\ LET n == FgetsLen(fp)
       IN  /\ line_buffer' = StripNewline(SubSeq(fp, 1, n))
           /\ fp' = SubSeq(fp, n + 1, Len(fp))
    /\ pc' = "strtok"
    /\ UNCHANGED <<HashTable, files, i, word, lastOut, mallocFails>>

\* fgets returns NULL: fclose, return to the build loop
CloseFile ==
    /\ pc = "fgets"
    /\ fp = <<>>
    /\ i' = i + 1
    /\ pc' = "build"
    /\ UNCHANGED <<HashTable, files, fp, line_buffer, word, lastOut, mallocFails>>

\* strtok returns a token, InsertIndex records it
IndexToken ==
    /\ pc = "strtok"
    /\ LET t == Strtok(line_buffer)
       IN  /\ t.token # <<>>
           /\ line_buffer' = t.rest
           /\ InsertIndex(t.token, files[i].doc_id, files[i].name, "strtok")
    /\ UNCHANGED <<files, i, fp, lastOut>>

\* strtok returns NULL: next line
EndOfLine ==
    /\ pc = "strtok"
    /\ Strtok(line_buffer).token = <<>>
    /\ line_buffer' = <<>>
    /\ pc' = "fgets"
    /\ UNCHANGED <<HashTable, files, i, fp, word, lastOut, mallocFails>>

\* the build loop ends
BuildDone ==
    /\ pc = "build"
    /\ i > Len(files)
    /\ lastOut' = [msg |-> "built", rows |-> <<>>]
    /\ pc' = "query"
    /\ UNCHANGED <<HashTable, files, i, fp, line_buffer, word, mallocFails>>

\* one round of the query loop: scanf reads a query other than "quit", Search prints
Query ==
    /\ pc = "query"
    /\ \E query \in Queries :
          /\ word' = ToLowerCase(query)
          /\ IF Len(query) >= MAX_WORD_LEN
             THEN \* scanf and ToLowerCase wrote past query[] and word[]: undefined behaviour
                  \/ /\ pc' = "crashed"
                     /\ UNCHANGED lastOut
                  \/ /\ lastOut' = Search(query)
                     /\ UNCHANGED pc
             ELSE /\ lastOut' = Search(query)
                  /\ UNCHANGED pc
    /\ UNCHANGED <<HashTable, files, i, fp, line_buffer, mallocFails>>

\* scanf reads "quit"
Quit ==
    /\ pc = "query"
    /\ pc' = "exit"
    /\ UNCHANGED <<HashTable, files, i, fp, line_buffer, word, lastOut, mallocFails>>

Next ==
    \/ LoadFileMissing
    \/ LoadFileOpen
    \/ ReadLine
    \/ CloseFile
    \/ IndexToken
    \/ EndOfLine
    \/ BuildDone
    \/ Query
    \/ Quit

Spec == Init /\ [][Next]_vars

ApiSpec == ApiInit /\ [][Next]_vars

-----------------------------------------------------------------------------
(* What the texts contain, read off the text itself *)

\* positions where a maximal run of non-delimiter characters starts
TokenStarts(c) ==
    {a \in 1..Len(c) : c[a] \notin delimiters /\ (a = 1 \/ c[a - 1] \in delimiters)}

\* last position of the run that starts at a
TokenEnd(c, a) ==
    CHOOSE e \in a..Len(c) :
        /\ \A j \in a..e : c[j] \notin delimiters
        /\ e = Len(c) \/ c[e + 1] \in delimiters

\* the run that starts at a, in lower case
TermAt(c, a) == [j \in 1..(TokenEnd(c, a) - a + 1) |-> tolower(c[a + j - 1])]

\* two strings that differ only in letter case
SameUpToCase(q1, q2) ==
    /\ Len(q1) = Len(q2)
    /\ \A k \in 1..Len(q1) :
          \/ q1[k] = q2[k]
          \/ /\ q1[k] \in (65..90) \cup (97..122)
             /\ q2[k] \in (65..90) \cup (97..122)
             /\ (q1[k] - q2[k] = 32 \/ q2[k] - q1[k] = 32)

\* the pairs of different queries that differ only in letter case
CasePairs == {p \in Queries \X Queries : p[1] # p[2] /\ SameUpToCase(p[1], p[2])}

\* the tokens of each text: where the token starts, the token, its lowercase form,
\* and the queries that equal the token up to case
Tokens ==
    [c \in Contents \cup {<<>>} |->
        {[at |-> a, raw |-> SubSeq(c, a, TokenEnd(c, a)), term |-> TermAt(c, a),
          queries |-> {q \in Queries : SameUpToCase(q, SubSeq(c, a, TokenEnd(c, a)))}] :
            a \in TokenStarts(c)}]

\* the files opened so far whose whole content has been indexed
Ingested == {k \in 1..Len(files) : files[k].available /\ k < i}

\* number of tokens equal to t up to case in the ingested content of source d
Occurrences(t, d) ==
    Cardinality(UNION {{<<k, tok.at>> : tok \in {x \in Tokens[files[k].content] : x.term = t}} :
                          k \in {x \in Ingested : files[x].doc_id = d}})

TermsOfFiles ==
    UNION {{tok.term : tok \in Tokens[files[k].content]} : k \in 1..Len(files)}

UsedBuckets == DOMAIN HashTable

\* the WordNodes of the table, by bucket and position in the chain
NodeAt == UNION {{<<b, k>> : k \in 1..Len(HashTable[b])} : b \in UsedBuckets}

StoredWords == {HashTable[n[1]][n[2]].word : n \in NodeAt}

\* the DocNodes of source d under a WordNode of word t
PostingsOf(t, d) ==
    UNION {{<<n, j>> : j \in {x \in 1..Len(HashTable[n[1]][n[2]].doc_list) :
                                  HashTable[n[1]][n[2]].doc_list[x].doc_id = d}} :
              n \in {m \in NodeAt : HashTable[m[1]][m[2]].word = t}}

FrequencyAt(nj) == HashTable[nj[1][1]][nj[1][2]].doc_list[nj[2]].frequency

DocIdsOfFiles == {files[k].doc_id : k \in 1..Len(files)}

BuildOver == pc \in {"query", "exit"}

\* no token of a file is too long for word[MAX_WORD_LEN]
ShortTokens ==
    \A k \in 1..Len(files) : \A tok \in Tokens[files[k].content] :
        Len(tok.raw) < MAX_WORD_LEN

\* no allocation failed and no token is too long
NoFault == mallocFails = 0 /\ ShortTokens

-----------------------------------------------------------------------------
(* Claims *)

\* C1: in every reachable table, the posting list of every WordNode holds at most
\* one DocNode per doc_id.
OnePostingPerDoc ==
    \A n \in NodeAt :
        LET dl == HashTable[n[1]][n[2]].doc_list
        IN  \A x, y \in 1..Len(dl) : dl[x].doc_id = dl[y].doc_id => x = y

\* C1 witness: a term recorded for two sources, one of them more than once.
OnePostingPerDocWitness ==
    \E n \in NodeAt :
        LET dl == HashTable[n[1]][n[2]].doc_list
        IN  /\ Len(dl) = 2
            /\ dl[1].doc_id # dl[2].doc_id
            /\ dl[1].frequency >= 2

\* C2: once the build is over, for every term t and source s there is a posting of s
\* under t exactly when s's content has a token whose lowercase form is t, and its
\* frequency is the number of such tokens.
CountCorrect ==
    BuildOver =>
        \A t \in TermsOfFiles \cup StoredWords : \A d \in DocIdsOfFiles :
            LET n == Occurrences(t, d)
                ps == PostingsOf(t, d)
            IN  IF n = 0 THEN ps = {}
                ELSE Cardinality(ps) = 1 /\ \A p \in ps : FrequencyAt(p) = n

\* C2, on the runs in which no allocation fails and no token is too long.
CountCorrectNoFault == NoFault => CountCorrect

\* C3: two queries that differ only in letter case get the same answer from Search,
\* whatever the table holds.
\* A term that is in the table is found by every query that equals, up to case, a
\* token it was ingested from.
CaseFoldEquivalence ==
    /\ \A p \in CasePairs : Search(p[1]) = Search(p[2])
    /\ \A stored \in {StoredWords} :
          \A k \in Ingested : \A tok \in Tokens[files[k].content] :
             tok.term \in stored => \A q \in tok.queries : Search(q).msg # "notfound"

\* C3 witness: "Aa" was ingested, and the query "AA" was answered with the postings
\* that "aa" gets too.
CaseFoldWitness ==
    /\ pc = "query"
    /\ word = <<97, 97>>
    /\ lastOut.msg = "found"
    /\ lastOut = Search(<<65, 65>>)
    /\ lastOut = Search(<<97, 97>>)
    /\ \E k \in Ingested : files[k].content = TextCollide

\* C4: once the build is over, Search reports found for exactly the queries whose
\* lowercase form is the lowercase form of an ingested token.
FoundIffIngested ==
    BuildOver =>
        \A q \in Queries :
            Search(q).msg = "found"
                <=> \E k \in Ingested : \E tok \in Tokens[files[k].content] :
                       tok.term = ToLowerCase(q)

\* C4, on the runs in which no allocation fails and no token is too long.
FoundIffIngestedNoFault == NoFault => FoundIffIngested

\* C5: a file that cannot be opened leaves the table as it is and the build loop
\* goes on with the next file; the build ends in the query loop with every file
\* visited, and what the table then holds (when no allocation failed and no token
\* was too long) is what the files that could be opened contain.
MissingSourceSkipped ==
    /\ [][(pc = "build" /\ i <= Len(files) /\ ~files[i].available)
             => (HashTable' = HashTable /\ i' = i + 1 /\ pc' = "build")]_vars
    /\ [](pc = "query" => i = Len(files) + 1)
    /\ [](CountCorrectNoFault)

\* C5 witness: the first file is missing, the second was indexed, the query loop is reached.
MissingSourceWitness ==
    /\ pc = "query"
    /\ ~files[1].available
    /\ files[2].available /\ files[2].content = TextCollide
    /\ \E p \in PostingsOf(<<97, 97>>, files[2].doc_id) : FrequencyAt(p) = 2

\* C6: when the same content was ingested twice under the same source id, every
\* frequency of that source is twice the number of tokens of the content, in one posting.
TwiceDoubles ==
    (/\ BuildOver
     /\ Len(files) = 2
     /\ files[1] = files[2]
     /\ files[1].available)
        => \A t \in TermsOfFiles :
              LET ps == PostingsOf(t, files[1].doc_id)
              IN  /\ Cardinality(ps) = 1
                  /\ \A p \in ps :
                        FrequencyAt(p) =
                            2 * Cardinality({tok \in Tokens[files[1].content] :
                                                tok.term = t})

\* C6, on the runs in which no allocation fails and no token is too long.
TwiceDoublesNoFault == NoFault => TwiceDoubles

\* C7: a step in which an allocation fails tells its caller: the program reports it.
AllocationFailureSurfaced ==
    [][mallocFails' > mallocFails => lastOut'.msg = "out of memory"]_vars

\* C8: no chain holds two WordNodes with the same word, and every WordNode is in
\* the bucket HashFunction gives for its word.
ChainsWellFormed ==
    \A n \in NodeAt :
        /\ HashFunction(HashTable[n[1]][n[2]].word) = n[1]
        /\ \A k \in 1..Len(HashTable[n[1]]) :
              HashTable[n[1]][k].word = HashTable[n[1]][n[2]].word => k = n[2]

\* C8, on the runs in which no token is too long.
ChainsWellFormedShortTokens == ShortTokens => ChainsWellFormed

\* C9: every WordNode has a posting, and Search never prints "index abnormal".
NoEmptyPostingList ==
    /\ \A n \in NodeAt : HashTable[n[1]][n[2]].doc_list # <<>>
    /\ lastOut.msg # "abnormal"

\* C10: the word ToLowerCase writes fits word[MAX_WORD_LEN] with its terminator, and
\* every stored term has between 1 and MAX_WORD_LEN - 1 characters.
WordFitsBuffer ==
    /\ Len(word) + 1 <= MAX_WORD_LEN
    /\ \A w \in StoredWords : 1 <= Len(w) /\ Len(w) <= MAX_WORD_LEN - 1

====
